---- MODULE Spec2Model ----
(***************************************************************************)
(* The RTMP connection handler of FindingWaldo: a Handler records one      *)
(* published stream as an FLV file under "received".  The model keeps the  *)
(* handler fields, the open file descriptions and the file contents, byte  *)
(* for byte, and has one action per transport callback.                    *)
(***************************************************************************)
EXTENDS Integers, Sequences, FiniteSets, TLC

\* ------------------------------------------------------------------------
\* Bounds of the model
\* ------------------------------------------------------------------------

\* callbacks delivered in one behaviour of Spec
MaxOps == 3
\* callbacks delivered in one behaviour of SpecPath
MaxPathOps == 1
\* longest publishing name enumerated by SpecPath
MaxNameLen == 3

\* ------------------------------------------------------------------------
\* Strings (sequences of one-character strings) and path/filepath
\* ------------------------------------------------------------------------

Dot == <<".">>
DotDot == <<".", ".">>
Sep == <<"/">>
\* the literal "received/" of OnPublish
ReceivedDir == <<"r", "e", "c", "e", "i", "v", "e", "d", "/">>
\* the path segment "received"
ReceivedSeg == <<"r", "e", "c", "e", "i", "v", "e", "d">>
\* the suffix added by fmt.Sprintf("%s.flv", name)
DotFlv == <<".", "f", "l", "v">>

\* strings.Split(s, "/") from index i on, cur being the component under way
RECURSIVE Split(_, _, _)
Split(s, i, cur) ==
    IF i > Len(s) THEN <<cur>>
    ELSE IF s[i] = "/" THEN <<cur>> \o Split(s, i + 1, <<>>)
    ELSE Split(s, i + 1, Append(cur, s[i]))

Segments(s) == Split(s, 1, <<>>)

\* the components joined by one separator each
RECURSIVE JoinSegs(_)
JoinSegs(segs) ==
    IF segs = <<>> THEN <<>>
    ELSE IF Len(segs) = 1 THEN segs[1]
    ELSE segs[1] \o Sep \o JoinSegs(Tail(segs))

\* the component loop of filepath.Clean: empty and "." components are
\* dropped, ".." removes the last real component, is dropped at the root
\* and is kept at the front of a relative path
RECURSIVE CleanSegs(_, _, _, _)
CleanSegs(segs, i, rooted, out) ==
    IF i > Len(segs) THEN out
    ELSE LET c == segs[i]
         IN  IF c = <<>> \/ c = Dot
                THEN CleanSegs(segs, i + 1, rooted, out)
             ELSE IF c = DotDot
                THEN IF Len(out) > 0 /\ out[Len(out)] # DotDot
                        THEN CleanSegs(segs, i + 1, rooted, SubSeq(out, 1, Len(out) - 1))
                     ELSE IF ~rooted
                        THEN CleanSegs(segs, i + 1, rooted, Append(out, c))
                     ELSE CleanSegs(segs, i + 1, rooted, out)
             ELSE CleanSegs(segs, i + 1, rooted, Append(out, c))

\* filepath.Clean
Clean(s) ==
    IF s = <<>> THEN Dot
    ELSE LET rooted == s[1] = "/"
             out == CleanSegs(Segments(s), 1, rooted, <<>>)
         IN  IF rooted THEN Sep \o JoinSegs(out)
             ELSE IF out = <<>> THEN Dot
             ELSE JoinSegs(out)

\* filepath.Join of two elements: leading empty elements are skipped, the
\* rest is joined by the separator and cleaned
Join2(a, b) ==
    IF a # <<>> THEN Clean(a \o Sep \o b)
    ELSE IF b # <<>> THEN Clean(b)
    ELSE <<>>

\* the publishing name joined to the base directory as it comes, without
\* being rooted at "/" first
ResolveUnrooted(name) == Join2(ReceivedDir, name \o DotFlv)

\* the path p computed by OnPublish
Resolve(name) == Join2(ReceivedDir, Clean(Join2(Sep, name \o DotFlv)))

\* ------------------------------------------------------------------------
\* Bytes and the FLV container (go-flv)
\* ------------------------------------------------------------------------

U16(n) == <<(n \div 256) % 256, n % 256>>
U24(n) == <<(n \div 65536) % 256, (n \div 256) % 256, n % 256>>
U32(n) == <<(n \div 16777216) % 256, (n \div 65536) % 256, (n \div 256) % 256, n % 256>>
FromU16(b) == b[1] * 256 + b[2]
FromU24(b) == b[1] * 65536 + b[2] * 256 + b[3]
FromU32(b) == b[1] * 16777216 + b[2] * 65536 + b[3] * 256 + b[4]

\* bytes i.. of s
From(s, i) == SubSeq(s, i, Len(s))

TagTypeAudio == 8
TagTypeVideo == 9
TagTypeScriptData == 18
FlagsAudio == 4
FlagsVideo == 1
FrameTypeKeyFrame == 1
CodecIDAVC == 7
AVCPacketTypeNALU == 1
\* sound format 10 carries one more header byte, the AAC packet type
SoundFormatAAC == 10

\* what flv.NewEncoder writes: signature "FLV", version 1, the flags, the
\* header size 9, and the size 0 of the tag before the first tag
FlvHeader(flags) == <<70, 76, 86, 1, flags, 0, 0, 0, 9>> \o U32(0)

\* the length of the header of a tag, before its body
TagHeaderLen == 11

\* what Encoder.Encode writes for one tag: type, body size, timestamp (low 24
\* bits, then the high 8), stream id 0, the body, the size of the tag
EncodeFlvTag(type, ts, body) ==
    <<type>> \o U24(Len(body)) \o U24(ts % 16777216) \o <<(ts \div 16777216) % 256>>
        \o <<0, 0, 0>> \o body \o U32(TagHeaderLen + Len(body))

\* ------------------------------------------------------------------------
\* Tag codec (go-flv/tag).  A payload reader is [data, bad]: the bytes it
\* yields, and whether it ends with a read error instead of EOF.
\* ------------------------------------------------------------------------

Reader(data, bad) == [data |-> data, bad |-> bad]

\* flvtag.DecodeAudioData: one header byte, one more for AAC, the rest is Data
DecodeAudioData(r) ==
    LET d == r.data
    IN  IF Len(d) < 1 THEN [ok |-> FALSE]
        ELSE IF d[1] \div 16 = SoundFormatAAC /\ Len(d) < 2 THEN [ok |-> FALSE]
        ELSE [ok |-> TRUE,
              SoundFormat |-> d[1] \div 16,
              SoundRate |-> (d[1] \div 4) % 4,
              SoundSize |-> (d[1] \div 2) % 2,
              SoundType |-> d[1] % 2,
              AACPacketType |-> IF d[1] \div 16 = SoundFormatAAC THEN d[2] ELSE 0,
              Data |-> IF d[1] \div 16 = SoundFormatAAC THEN From(d, 3) ELSE From(d, 2)]

\* flvtag.EncodeAudioData, as Encoder.Encode calls it for an audio tag
EncodeAudioData(a, data) ==
    <<a.SoundFormat * 16 + a.SoundRate * 4 + a.SoundSize * 2 + a.SoundType>>
        \o (IF a.SoundFormat = SoundFormatAAC THEN <<a.AACPacketType>> ELSE <<>>)
        \o data

\* flvtag.DecodeVideoData: one header byte (frame type, codec id), the rest is Data
DecodeVideoData(r) ==
    LET d == r.data
    IN  IF Len(d) < 1 THEN [ok |-> FALSE]
        ELSE [ok |-> TRUE,
              FrameType |-> d[1] \div 16,
              CodecID |-> d[1] % 16,
              Data |-> From(d, 2)]

\* flvtag.EncodeVideoData, as Encoder.Encode calls it for a video tag
EncodeVideoData(v, data) == <<v.FrameType * 16 + v.CodecID>> \o data

\* io.Copy(flvBody, x.Data): the rest of the payload, or the reader's error
CopyBody(r, data) == IF r.bad THEN [ok |-> FALSE, data |-> <<>>] ELSE [ok |-> TRUE, data |-> data]

\* flvtag.DecodeAVCVideoPacket: packet type, 24-bit composition time, the rest
DecodeAVCVideoPacket(d) ==
    IF Len(d) < 4 THEN [ok |-> FALSE]
    ELSE [ok |-> TRUE,
          AVCPacketType |-> d[1],
          CompositionTime |-> FromU24(SubSeq(d, 2, 4)),
          Data |-> From(d, 5)]

\* flvtag.EncodeAVCVideoPacket: the low three bytes of the composition time
EncodeAVCVideoPacket(avc, data) ==
    [ok |-> TRUE,
     data |-> <<avc.AVCPacketType>> \o U24(avc.CompositionTime % 16777216) \o data]

\* ------------------------------------------------------------------------
\* The visual transform (placeholders of the source)
\* ------------------------------------------------------------------------

\* io.ReadAll of the NAL-unit reader
extractFrameFromNALU(naluData) == [ok |-> TRUE, data |-> naluData]

\* returns the frame it is given
applyComputerVision(frameData) == [ok |-> TRUE, data |-> frameData]

\* returns the frame it is given
packFrameToNALU(frameData) == [ok |-> TRUE, data |-> frameData]

Fail == [ok |-> FALSE, data |-> <<>>, cv |-> FALSE]

\* processFrameWithCV returning the repackaged NAL units themselves, without
\* putting the AVC packet header back in front of them
processFrameWithCVBareNALU(frameData, codecID) ==
    IF codecID = CodecIDAVC
    THEN LET avc == DecodeAVCVideoPacket(frameData)
         IN  IF ~avc.ok THEN Fail
             ELSE IF avc.AVCPacketType = AVCPacketTypeNALU
             THEN [ok |-> TRUE,
                   data |-> packFrameToNALU(applyComputerVision(extractFrameFromNALU(avc.Data).data).data).data,
                   cv |-> TRUE]
             ELSE [ok |-> TRUE, data |-> frameData, cv |-> FALSE]
    ELSE [ok |-> TRUE, data |-> frameData, cv |-> FALSE]

\* processFrameWithCV without its test of the AVC packet type: sequence
\* headers and end-of-sequence packets go through the transform as well
processFrameWithCVEveryPacket(frameData, codecID) ==
    IF codecID = CodecIDAVC
    THEN LET avc == DecodeAVCVideoPacket(frameData)
         IN  IF ~avc.ok THEN Fail
             ELSE [ok |-> TRUE,
                   data |-> EncodeAVCVideoPacket(avc,
                                packFrameToNALU(applyComputerVision(extractFrameFromNALU(avc.Data).data).data).data).data,
                   cv |-> TRUE]
    ELSE [ok |-> TRUE, data |-> frameData, cv |-> FALSE]

\* processFrameWithCV: (processedData, err), and whether the transform ran
processFrameWithCV(frameData, codecID) ==
    IF codecID = CodecIDAVC
    THEN LET avc == DecodeAVCVideoPacket(frameData)
         IN  IF ~avc.ok THEN Fail
             ELSE IF avc.AVCPacketType = AVCPacketTypeNALU
             THEN LET frame == extractFrameFromNALU(avc.Data)
                  IN  IF ~frame.ok THEN Fail
                      ELSE LET processedFrame == applyComputerVision(frame.data)
                           IN  IF ~processedFrame.ok THEN Fail
                               ELSE LET processedNALU == packFrameToNALU(processedFrame.data)
                                    IN  IF ~processedNALU.ok THEN Fail
                                        ELSE LET enc == EncodeAVCVideoPacket(avc, processedNALU.data)
                                             IN  IF ~enc.ok THEN Fail
                                                 ELSE [ok |-> TRUE, data |-> enc.data, cv |-> TRUE]
             ELSE [ok |-> TRUE, data |-> frameData, cv |-> FALSE]
    ELSE [ok |-> TRUE, data |-> frameData, cv |-> FALSE]

\* the key-frame branch of OnVideo with the error of processFrameWithCV
\* taken for a result: the body becomes the (nil) processed data
VideoBodyErrReplaces(video, flvBody) ==
    IF video.FrameType = FrameTypeKeyFrame
    THEN processFrameWithCV(flvBody, video.CodecID).data
    ELSE flvBody

\* OnVideo without its video.Data = flvBody: the encoder reads the payload
\* reader that io.Copy has drained
VideoBodyReaderDrained(video, flvBody) == <<>>

\* the key-frame branch of OnVideo: the body of the tag to write
VideoBody(video, flvBody) ==
    IF video.FrameType = FrameTypeKeyFrame
    THEN LET processed == processFrameWithCV(flvBody, video.CodecID)
         IN  IF ~processed.ok THEN flvBody ELSE processed.data
    ELSE flvBody

\* ------------------------------------------------------------------------
\* Script data (go-flv/tag over go-amf0), for the AMF0 values the model's
\* payloads use: strings, ECMA arrays and booleans.  ScriptData.Objects and
\* an ECMA array are Go maps: a function from keys to values here.
\* ------------------------------------------------------------------------

AMFString == 2
AMFBoolean == 1
AMFECMAArray == 8
AMFObjectEnd == 9

EmptyMap == [k \in {} |-> FALSE]

\* an AMF0 string at b[i]: marker, 16-bit length, characters
DecodeAMFString(b, i) ==
    IF i + 2 > Len(b) \/ b[i] # AMFString THEN [ok |-> FALSE]
    ELSE LET n == FromU16(SubSeq(b, i + 1, i + 2))
         IN  IF i + 2 + n > Len(b) THEN [ok |-> FALSE]
             ELSE [ok |-> TRUE, v |-> SubSeq(b, i + 3, i + 2 + n), next |-> i + 3 + n]

\* the properties of an ECMA array from b[i] on: key, value, ..., until the
\* empty key followed by the object-end marker; a repeated key is overwritten
RECURSIVE DecodeProps(_, _, _)
DecodeProps(b, i, acc) ==
    IF i + 1 > Len(b) THEN [ok |-> FALSE]
    ELSE LET n == FromU16(SubSeq(b, i, i + 1))
             j == i + 2 + n
         IN  IF j > Len(b) THEN [ok |-> FALSE]
             ELSE IF n = 0 /\ b[j] = AMFObjectEnd THEN [ok |-> TRUE, v |-> acc, next |-> j + 1]
             ELSE IF b[j] = AMFBoolean /\ j + 1 <= Len(b)
                THEN DecodeProps(b, j + 2, (SubSeq(b, i + 2, j - 1) :> (b[j + 1] # 0)) @@ acc)
             ELSE [ok |-> FALSE]

\* an AMF0 ECMA array at b[i]: marker, 32-bit count, the properties
DecodeECMAArray(b, i) ==
    IF i + 4 > Len(b) \/ b[i] # AMFECMAArray THEN [ok |-> FALSE]
    ELSE DecodeProps(b, i + 5, EmptyMap)

\* the loop of flvtag.DecodeScriptData: (key string, ECMA array) pairs until EOF
RECURSIVE DecodeObjects(_, _, _)
DecodeObjects(b, i, acc) ==
    IF i > Len(b) THEN [ok |-> TRUE, Objects |-> acc]
    ELSE LET key == DecodeAMFString(b, i)
         IN  IF ~key.ok THEN [ok |-> FALSE]
             ELSE LET value == DecodeECMAArray(b, key.next)
                  IN  IF ~value.ok THEN [ok |-> FALSE]
                      ELSE DecodeObjects(b, value.next, (key.v :> value.v) @@ acc)

\* flvtag.DecodeScriptData
DecodeScriptData(b) == DecodeObjects(b, 1, EmptyMap)

\* the orders in which a range over a Go map can visit the keys S
Orderings(S) ==
    {o \in [1..Cardinality(S) -> S] : \A i, j \in 1..Cardinality(S) : i # j => o[i] # o[j]}

EncodeAMFString(k) == <<AMFString>> \o U16(Len(k)) \o k

RECURSIVE EncodeProps(_, _)
EncodeProps(m, o) ==
    IF o = <<>> THEN <<0, 0, AMFObjectEnd>>
    ELSE U16(Len(o[1])) \o o[1] \o <<AMFBoolean, IF m[o[1]] THEN 1 ELSE 0>>
            \o EncodeProps(m, Tail(o))

\* the encodings of one ECMA array, one for each order of its keys
ECMAArrayEncodings(m) ==
    {<<AMFECMAArray>> \o U32(Cardinality(DOMAIN m)) \o EncodeProps(m, o) : o \in Orderings(DOMAIN m)}

RECURSIVE ObjectsEncodings(_, _)
ObjectsEncodings(objs, o) ==
    IF o = <<>> THEN {<<>>}
    ELSE {EncodeAMFString(o[1]) \o a \o rest :
            a \in ECMAArrayEncodings(objs[o[1]]), rest \in ObjectsEncodings(objs, Tail(o))}

\* flvtag.EncodeScriptData: the bodies it can write for the decoded objects
ScriptDataEncodings(objs) ==
    UNION {ObjectsEncodings(objs, o) : o \in Orderings(DOMAIN objs)}

\* ------------------------------------------------------------------------
\* Reading a recording back: the tags of an FLV file
\* ------------------------------------------------------------------------

Tag(type, ts, body) == [type |-> type, ts |-> ts, body |-> body]

\* the tags from byte i on; ok is FALSE when the bytes are not whole tags
RECURSIVE ParseTags(_, _, _)
ParseTags(c, i, acc) ==
    IF i > Len(c) THEN [ok |-> TRUE, tags |-> acc]
    ELSE IF i + TagHeaderLen - 1 > Len(c) THEN [ok |-> FALSE, tags |-> acc]
    ELSE LET n == FromU24(SubSeq(c, i + 1, i + 3))
             ts == FromU24(SubSeq(c, i + 4, i + 6)) + c[i + 7] * 16777216
             e == i + TagHeaderLen + n
         IN  IF e + 3 > Len(c) THEN [ok |-> FALSE, tags |-> acc]
             ELSE IF c[i] \notin {TagTypeAudio, TagTypeVideo, TagTypeScriptData}
                     \/ SubSeq(c, i + 8, i + 10) # <<0, 0, 0>>
                     \/ FromU32(SubSeq(c, e, e + 3)) # TagHeaderLen + n
                THEN [ok |-> FALSE, tags |-> acc]
             ELSE ParseTags(c, e + 4, Append(acc, Tag(c[i], ts, SubSeq(c, i + TagHeaderLen, e - 1))))

\* the whole file: the header of an audio+video recording, then whole tags
ParseFlv(c) ==
    IF Len(c) < 13 \/ SubSeq(c, 1, 13) # FlvHeader(FlagsAudio + FlagsVideo)
    THEN [ok |-> FALSE, tags |-> <<>>]
    ELSE ParseTags(c, 14, <<>>)

\* ------------------------------------------------------------------------
\* State
\* ------------------------------------------------------------------------

VARIABLES
    h,      \* the Handler values: flvFile and flvEnc, a descriptor or Nil
    fds,    \* the open file descriptions (*os.File): path, offset, open
    fs,     \* the files under the working directory: path -> bytes
    sub,    \* per handler: what was submitted since its last successful publish
    last,   \* the callback that ran last, and what it returned and wrote
    nops    \* callbacks delivered so far

vars == <<h, fds, fs, sub, last, nops>>

Handlers == {1, 2}
Nil == 0

\* the program state a callback reads and changes
Cur == [h |-> h, fds |-> fds, fs |-> fs]

\* the bytes of a file after data is written at offset off (O_WRONLY without
\* O_APPEND and without O_TRUNC: bytes beyond the write stay as they are)
WriteAt(content, off, data) ==
    [i \in 1..(IF off + Len(data) > Len(content) THEN off + Len(data) ELSE Len(content)) |->
        IF i > off /\ i <= off + Len(data) THEN data[i - off]
        ELSE IF i <= Len(content) THEN content[i]
        ELSE 0]

\* how a write to an open file ends: whole, or failed part-way (a write to a
\* closed file fails with nothing written, see FileWrite)
WriteOutcomes == {"ok", "part"}

\* the bytes a write of data puts out before it ends
Cut(wr, data) ==
    IF wr = "ok" THEN Len(data)
    ELSE IF TagHeaderLen < Len(data) THEN TagHeaderLen
    ELSE 0

\* (*os.File).Write through descriptor fd; a closed file takes nothing
FileWrite(st, fd, data, wr) ==
    IF ~st.fds[fd].open THEN [st |-> st, ok |-> FALSE, wrote |-> <<>>]
    ELSE LET f == st.fds[fd]
             out == SubSeq(data, 1, Cut(wr, data))
         IN  [st |-> [st EXCEPT !.fs[f.path] = WriteAt(@, f.off, out),
                                !.fds[fd].off = @ + Len(out)],
              ok |-> wr = "ok",
              wrote |-> out]

\* os.OpenFile(p, O_CREATE|O_WRONLY, 0666): the file is created empty when it
\* is missing and left as it is otherwise; the new descriptor starts at 0
OpenFile(st, p) ==
    [st EXCEPT !.fs = IF p \in DOMAIN @ THEN @ ELSE (p :> <<>>) @@ @,
               !.fds = Append(@, [path |-> p, off |-> 0, open |-> TRUE])]

\* (*os.File).Close
FileClose(st, fd) == [st EXCEPT !.fds[fd].open = FALSE]

\* Encoder.Encode on the handler's encoder: a nil encoder is dereferenced
Encode(st, hd, bytes, wr) ==
    IF st.h[hd].flvEnc = Nil THEN [st |-> st, ok |-> FALSE, wrote |-> <<>>, panic |-> TRUE]
    ELSE LET w == FileWrite(st, st.h[hd].flvEnc, bytes, wr)
         IN  [st |-> w.st, ok |-> w.ok, wrote |-> w.wrote, panic |-> FALSE]

\* what a callback leaves behind: the state, what it returned ("ok", "err",
\* "panic"), the bytes it put into the file, the tag it handed to the encoder
Result(st, ret, wrote, tag) == [st |-> st, ret |-> ret, wrote |-> wrote, tag |-> tag]

NoTag == <<>>

\* ------------------------------------------------------------------------
\* The callbacks, as functions of the state and their inputs
\* ------------------------------------------------------------------------

\* Handler.OnPublish; open: whether os.OpenFile succeeds, wr: how the write
\* of the container header ends
Publish(st, hd, name, open, wr) ==
    LET p == Resolve(name)
    IN  IF ~open THEN Result(st, "err", <<>>, NoTag)
        ELSE LET f == Len(st.fds) + 1
                 st1 == [OpenFile(st, p) EXCEPT !.h[hd].flvFile = f]
                 enc == FileWrite(st1, f, FlvHeader(FlagsAudio + FlagsVideo), wr)
             IN  IF ~enc.ok THEN Result(FileClose(enc.st, f), "err", enc.wrote, NoTag)
                 ELSE Result([enc.st EXCEPT !.h[hd].flvEnc = f], "ok", enc.wrote, NoTag)

\* the tail of the three tag callbacks: encode the tag, log a failed write
WriteTag(st, hd, tag, wr) ==
    LET e == Encode(st, hd, EncodeFlvTag(tag.type, tag.ts, tag.body), wr)
    IN  IF e.panic THEN Result(st, "panic", <<>>, tag)
        ELSE Result(e.st, "ok", e.wrote, tag)

\* OnSetDataFrame treating a payload it cannot decode as OnAudio does: the
\* error goes back to the transport
SetDataFrameReturnsErr(st, hd, ts, payload, body, wr) ==
    LET script == DecodeScriptData(payload)
    IN  IF ~script.ok THEN Result(st, "err", <<>>, NoTag)
        ELSE WriteTag(st, hd, Tag(TagTypeScriptData, ts, body), wr)

\* Handler.OnSetDataFrame; body: the encoding EncodeScriptData produces
SetDataFrame(st, hd, ts, payload, body, wr) ==
    LET script == DecodeScriptData(payload)
    IN  IF ~script.ok THEN Result(st, "ok", <<>>, NoTag)
        ELSE WriteTag(st, hd, Tag(TagTypeScriptData, ts, body), wr)

\* OnAudio treating a payload it cannot decode as OnSetDataFrame does:
\* logged and dropped, nil returned
AudioDropsUndecodable(st, hd, ts, payload, wr) ==
    LET audio == DecodeAudioData(payload)
    IN  IF ~audio.ok THEN Result(st, "ok", <<>>, NoTag)
        ELSE LET flvBody == CopyBody(payload, audio.Data)
             IN  IF ~flvBody.ok THEN Result(st, "ok", <<>>, NoTag)
                 ELSE WriteTag(st, hd, Tag(TagTypeAudio, ts, EncodeAudioData(audio, flvBody.data)), wr)

\* Handler.OnAudio
Audio(st, hd, ts, payload, wr) ==
    LET audio == DecodeAudioData(payload)
    IN  IF ~audio.ok THEN Result(st, "err", <<>>, NoTag)
        ELSE LET flvBody == CopyBody(payload, audio.Data)
             IN  IF ~flvBody.ok THEN Result(st, "err", <<>>, NoTag)
                 ELSE WriteTag(st, hd, Tag(TagTypeAudio, ts, EncodeAudioData(audio, flvBody.data)), wr)

\* Handler.OnVideo
Video(st, hd, ts, payload, wr) ==
    LET video == DecodeVideoData(payload)
    IN  IF ~video.ok THEN Result(st, "err", <<>>, NoTag)
        ELSE LET flvBody == CopyBody(payload, video.Data)
             IN  IF ~flvBody.ok THEN Result(st, "err", <<>>, NoTag)
                 ELSE WriteTag(st, hd,
                               Tag(TagTypeVideo, ts, EncodeVideoData(video, VideoBody(video, flvBody.data))),
                               wr)

\* OnClose closing through the encoder's writer instead of the checked
\* file handle: a session without an encoder dereferences nil
CloseThroughEncoder(st, hd) ==
    IF st.h[hd].flvEnc = Nil THEN Result(st, "panic", <<>>, NoTag)
    ELSE Result(FileClose(st, st.h[hd].flvEnc), "ok", <<>>, NoTag)

\* Handler.OnClose
Close(st, hd) ==
    IF st.h[hd].flvFile # Nil
    THEN Result(FileClose(st, st.h[hd].flvFile), "ok", <<>>, NoTag)
    ELSE Result(st, "ok", <<>>, NoTag)

\* ------------------------------------------------------------------------
\* Inputs
\* ------------------------------------------------------------------------

NameA == <<"a">>
NameB == <<"b">>
\* publishing names of Spec: two streams
Names == {NameA, NameB}

\* RTMP timestamps: out of order and repeated ones included
Timestamps == {1, 2}

\* "k" -> empty ECMA array
GoodScript == <<2, 0, 1, 107, 8, 0, 0, 0, 0, 0, 0, 9>>
\* a string cut short
BadScript == <<2, 0>>
ScriptPayloads == {GoodScript, BadScript}

\* AAC raw frame; empty payload; a payload stream that breaks while read
GoodAudio == Reader(<<175, 1, 33>>, FALSE)
EmptyPayload == Reader(<<>>, FALSE)
BrokenAudio == Reader(<<175, 1, 33>>, TRUE)
AudioPayloads == {GoodAudio, EmptyPayload, BrokenAudio}

\* inter frame AVC NALU; key frame AVC NALU; key frame AVC with a packet
\* header cut short; key frame H.263; key frame AVC sequence header
InterAVC == Reader(<<39, 1, 0, 0, 0, 101>>, FALSE)
KeyAVC == Reader(<<23, 1, 0, 0, 0, 101>>, FALSE)
KeyAVCShort == Reader(<<23, 1, 0>>, FALSE)
KeyH263 == Reader(<<18, 101>>, FALSE)
KeyAVCSeqHeader == Reader(<<23, 0, 0, 0, 0, 1>>, FALSE)
BrokenVideo == Reader(<<39, 1, 0, 0, 0, 101>>, TRUE)
VideoPayloads ==
    {InterAVC, KeyAVC, KeyAVCShort, KeyH263, KeyAVCSeqHeader, EmptyPayload, BrokenVideo}

\* a recording an earlier run left under the first name
OldRecording ==
    FlvHeader(FlagsAudio + FlagsVideo)
        \o EncodeFlvTag(TagTypeVideo, 0, <<23, 1, 0, 0, 0, 101, 102>>)
        \o EncodeFlvTag(TagTypeAudio, 1, <<175, 1, 33>>)

\* the files "received" can hold when the server starts
InitialFiles == {<<>>, Resolve(NameA) :> OldRecording}

\* ------------------------------------------------------------------------
\* Actions: one per callback
\* ------------------------------------------------------------------------

\* pub: a publish succeeded; ok: no decode or write failed since; tags: the
\* tags decoded and written whole since; pubfail: the last publish failed;
\* fatal: an audio or video payload could not be decoded since; closes:
\* the OnClose calls since; wfail: the write of a tag failed since
NoSub ==
    [pub |-> FALSE, ok |-> FALSE, tags |-> <<>>, pubfail |-> FALSE, fatal |-> FALSE,
     closes |-> 0, wfail |-> FALSE]

Init ==
    /\ h = [hd \in Handlers |-> [flvFile |-> Nil, flvEnc |-> Nil]]
    /\ fds = <<>>
    /\ fs \in InitialFiles
    /\ sub = [hd \in Handlers |-> NoSub]
    /\ last = [op |-> "none", hd |-> Nil, ret |-> "ok", arg |-> <<>>, ts |-> 0,
               wr |-> "ok", wrote |-> <<>>, tag |-> NoTag]
    /\ nops = 0

\* the callback's effect on the program state, and the record of the call
Step(op, hd, arg, ts, wr, r) ==
    /\ h' = r.st.h
    /\ fds' = r.st.fds
    /\ fs' = r.st.fs
    /\ last' = [op |-> op, hd |-> hd, ret |-> r.ret, arg |-> arg, ts |-> ts,
                wr |-> IF r.tag # NoTag \/ op = "OnPublish" THEN wr ELSE "ok",
                wrote |-> r.wrote, tag |-> r.tag]
    /\ nops' = nops + 1

\* the history of a tag callback: the tag joins the submitted ones when it
\* was decoded and written whole; any failure is remembered
SubTag(hd, r, fatal) ==
    sub' = [sub EXCEPT ![hd] =
        IF r.tag # NoTag /\ r.ret = "ok"
              /\ r.wrote = EncodeFlvTag(r.tag.type, r.tag.ts, r.tag.body)
        THEN [@ EXCEPT !.tags = Append(@, r.tag)]
        ELSE [@ EXCEPT !.ok = FALSE, !.fatal = @ \/ fatal,
                       !.wfail = @ \/ (r.tag # NoTag /\ r.ret = "ok")]]

OnPublish(hd, name, open, wr) ==
    LET r == Publish(Cur, hd, name, open, wr)
    IN  /\ Step("OnPublish", hd, name, 0, wr, r)
        /\ sub' = [sub EXCEPT ![hd] =
                IF r.ret = "ok"
                THEN [pub |-> TRUE, ok |-> TRUE, tags |-> <<>>, pubfail |-> FALSE, fatal |-> FALSE,
                      closes |-> 0, wfail |-> FALSE]
                ELSE [@ EXCEPT !.pubfail = TRUE]]

OnSetDataFrame(hd, ts, payload, wr) ==
    \E body \in (IF DecodeScriptData(payload).ok
                 THEN ScriptDataEncodings(DecodeScriptData(payload).Objects)
                 ELSE {<<>>}) :
        LET r == SetDataFrame(Cur, hd, ts, payload, body, wr)
        IN  /\ Step("OnSetDataFrame", hd, payload, ts, wr, r)
            /\ SubTag(hd, r, FALSE)

OnAudio(hd, ts, payload, wr) ==
    LET r == Audio(Cur, hd, ts, payload, wr)
    IN  /\ Step("OnAudio", hd, payload, ts, wr, r)
        /\ SubTag(hd, r, r.ret = "err")

OnVideo(hd, ts, payload, wr) ==
    LET r == Video(Cur, hd, ts, payload, wr)
    IN  /\ Step("OnVideo", hd, payload, ts, wr, r)
        /\ SubTag(hd, r, r.ret = "err")

OnClose(hd) ==
    LET r == Close(Cur, hd)
    IN  /\ Step("OnClose", hd, <<>>, 0, "ok", r)
        /\ sub' = [sub EXCEPT ![hd].closes = @ + 1]

\* the outcomes a write through the handler's encoder can have: a handler
\* without an encoder, or with its file closed, writes nothing either way
Outcomes(hd) ==
    IF h[hd].flvEnc # Nil /\ fds[h[hd].flvEnc].open THEN WriteOutcomes ELSE {"ok"}

\* the transport delivers one callback to one of the sessions H
Deliver(H) ==
    \/ \E hd \in H, name \in Names, open \in BOOLEAN :
        \E wr \in (IF open THEN WriteOutcomes ELSE {"ok"}) :
            nops < MaxOps /\ OnPublish(hd, name, open, wr)
    \/ \E hd \in H, ts \in Timestamps, p \in ScriptPayloads :
        \E wr \in Outcomes(hd) :
            nops < MaxOps /\ OnSetDataFrame(hd, ts, p, wr)
    \/ \E hd \in H, ts \in Timestamps, p \in AudioPayloads :
        \E wr \in Outcomes(hd) :
            nops < MaxOps /\ OnAudio(hd, ts, p, wr)
    \/ \E hd \in H, ts \in Timestamps, p \in VideoPayloads :
        \E wr \in Outcomes(hd) :
            nops < MaxOps /\ OnVideo(hd, ts, p, wr)
    \/ \E hd \in H : nops < MaxOps /\ OnClose(hd)

\* one connection
Next == Deliver({1})

\* two connections, their callbacks interleaved in any order
NextTwo == Deliver(Handlers)

Spec == Init /\ [][Next]_vars

SpecTwo == Init /\ [][NextTwo]_vars

\* ------------------------------------------------------------------------
\* The path resolver on its own: every short name over the characters that
\* matter to filepath, and the traversal name of the specification
\* ------------------------------------------------------------------------

PathChars == {"a", ".", "/"}
\* "../../etc/passwd"
EtcPasswd == <<".", ".", "/", ".", ".", "/", "e", "t", "c", "/", "p", "a", "s", "s", "w", "d">>
\* "received/etc/passwd.flv"
ReceivedEtcPasswd ==
    ReceivedDir \o <<"e", "t", "c", "/", "p", "a", "s", "s", "w", "d">> \o DotFlv
AllNames == UNION {[1..n -> PathChars] : n \in 0..MaxNameLen} \cup {EtcPasswd}

PathNext ==
    /\ nops < MaxPathOps
    /\ \E name \in AllNames, open \in BOOLEAN : OnPublish(1, name, open, "ok")

SpecPath == Init /\ [][PathNext]_vars

\* ------------------------------------------------------------------------
\* Properties
\* ------------------------------------------------------------------------

TagOps == {"OnSetDataFrame", "OnAudio", "OnVideo"}

IsPrefix(a, b) == Len(a) <= Len(b) /\ SubSeq(b, 1, Len(a)) = a

\* the file a handler's encoder writes to, in a given state
FileOf(hx, fdsx, fsx, hd) == fsx[fdsx[hx[hd].flvEnc].path]

\* whether a video payload is a key frame whose processFrameWithCV fails
CVFails(payload) ==
    LET video == DecodeVideoData(payload)
    IN  /\ video.ok
        /\ ~payload.bad
        /\ video.FrameType = FrameTypeKeyFrame
        /\ ~processFrameWithCV(video.Data, video.CodecID).ok

\* C1: an OnVideo call on a publishing session with a key frame whose
\* processFrameWithCV fails returns nil, and leaves the file as the write of
\* the tag with the received payload for its body leaves it.
C1_FailOpen ==
    [][(last'.op = "OnVideo" /\ h[last'.hd].flvEnc # Nil /\ CVFails(last'.arg))
        => LET orig == FileWrite(Cur, h[last'.hd].flvEnc,
                                 EncodeFlvTag(TagTypeVideo, last'.ts, last'.arg.data), last'.wr)
           IN  /\ last'.ret = "ok"
               /\ last'.tag = Tag(TagTypeVideo, last'.ts, last'.arg.data)
               /\ fs' = orig.st.fs
               /\ fds' = orig.st.fds
               /\ h' = h]_vars

\* C1 witness: a key frame with a cut-short AVC packet was written whole,
\* with its received bytes
C1_Witness ==
    /\ last.op = "OnVideo"
    /\ last.arg = KeyAVCShort
    /\ last.ret = "ok"
    /\ last.wrote = EncodeFlvTag(TagTypeVideo, last.ts, KeyAVCShort.data)

\* C2: while every callback since the successful publish was decoded and
\* written, the file reads back as exactly the submitted tags, in order.
C2_ArrivalOrder ==
    \A hd \in Handlers :
        (sub[hd].pub /\ sub[hd].ok)
            => LET f == ParseFlv(FileOf(h, fds, fs, hd))
               IN  f.ok /\ f.tags = sub[hd].tags

\* whether a path names something strictly inside "received": relative, the
\* first segment "received", at least one more, none empty, "." or ".."
Inside(p) ==
    LET segs == Segments(p)
    IN  /\ Len(segs) >= 2
        /\ segs[1] = ReceivedSeg
        /\ \A i \in 1..Len(segs) : segs[i] \notin {<<>>, Dot, DotDot}

\* C3: every path OnPublish computes, and every file it opens or creates,
\* lies strictly inside "received"; "../../etc/passwd" resolves to
\* "received/etc/passwd.flv".
C3_PathContained ==
    /\ \A i \in 1..Len(fds) : Inside(fds[i].path)
    /\ \A p \in DOMAIN fs : Inside(p)
    /\ last.op = "OnPublish" => Inside(Resolve(last.arg))
    /\ (last.op = "OnPublish" /\ last.arg = EtcPasswd /\ last.ret = "ok")
            => fds[Len(fds)].path = ReceivedEtcPasswd

\* C3 witness: the traversal name was published and its file opened
C3_Witness ==
    /\ last.op = "OnPublish"
    /\ last.arg = EtcPasswd
    /\ last.ret = "ok"
    /\ ReceivedEtcPasswd \in DOMAIN fs

\* C4: right after a successful OnPublish the target file holds the
\* container header and nothing else.
C4_TruncatedOnPublish ==
    (last.op = "OnPublish" /\ last.ret = "ok")
        => fs[Resolve(last.arg)] = FlvHeader(FlagsAudio + FlagsVideo)

\* C5: after a failed OnPublish, a tag callback on that session neither
\* faults nor puts a byte into a file.
C5_PublishFailureFatal ==
    (last.op \in TagOps /\ sub[last.hd].pubfail)
        => last.ret # "panic" /\ last.wrote = <<>>

\* C6: OnClose never faults and never changes a file; on a session closed
\* before it changes nothing at all.
C6_CloseSafeIdempotent ==
    [][last'.op = "OnClose"
        => /\ last'.ret = "ok"
           /\ fs' = fs
           /\ sub[last'.hd].closes > 0 => (h' = h /\ fds' = fds)]_vars

\* C6 witness: a second OnClose on a session that had published
C6_Witness ==
    /\ last.op = "OnClose"
    /\ sub[last.hd].pub
    /\ sub[last.hd].closes = 2

\* C7: a callback of one session changes neither the handler, nor the
\* descriptor, nor the file of another publishing session.
C7_SessionIsolation ==
    [][\A hd \in Handlers :
        (hd # last'.hd /\ h[hd].flvEnc # Nil)
            => /\ h'[hd] = h[hd]
               /\ fds'[h[hd].flvEnc] = fds[h[hd].flvEnc]
               /\ FileOf(h', fds', fs', hd) = FileOf(h, fds, fs, hd)]_vars

\* C8: the file of a session that published is the header followed by whole
\* tags, and a callback only ever extends it.
C8_ValidPrefix ==
    [][\A hd \in Handlers :
        /\ sub'[hd].pub => ParseFlv(FileOf(h', fds', fs', hd)).ok
        /\ (sub[hd].pub /\ fds'[h'[hd].flvEnc].path = fds[h[hd].flvEnc].path)
                => IsPrefix(FileOf(h, fds, fs, hd), FileOf(h', fds', fs', hd))]_vars

\* C9: OnSetDataFrame with a payload it cannot decode returns nil and leaves
\* the handlers, the descriptors and the files as they were, so that what
\* follows runs as if the call had not been made.
C9_ScriptDecodeSoft ==
    [][(last'.op = "OnSetDataFrame" /\ ~DecodeScriptData(last'.arg).ok)
        => /\ last'.ret = "ok"
           /\ last'.wrote = <<>>
           /\ h' = h
           /\ fds' = fds
           /\ fs' = fs]_vars

\* C9 witness: a cut-short script payload arrived on a publishing session
C9_Witness ==
    /\ last.op = "OnSetDataFrame"
    /\ last.arg = BadScript
    /\ last.ret = "ok"
    /\ sub[last.hd].pub
    /\ fds[h[last.hd].flvEnc].open

\* whether OnAudio or OnVideo cannot decode or read the payload
Undecodable(op, payload) ==
    \/ payload.bad
    \/ op = "OnAudio" /\ ~DecodeAudioData(payload).ok
    \/ op = "OnVideo" /\ ~DecodeVideoData(payload).ok

C11_WriteFailureSoft ==
    [][(last'.op \in TagOps /\ last'.tag # NoTag /\ h[last'.hd].flvEnc # Nil)
        => /\ last'.ret = "ok"
           /\ h' = h
           /\ fds'[h[last'.hd].flvEnc].open = fds[h[last'.hd].flvEnc].open
           /\ sub'[last'.hd].wfail
                => LET f == ParseFlv(FileOf(h', fds', fs', last'.hd))
                   IN  f.ok /\ f.tags = sub'[last'.hd].tags]_vars

\* ------------------------------------------------------------------------
\* One connection that publishes and sends video, over more video payloads
\* ------------------------------------------------------------------------

MaxVideoOps == 2

\* an AVC key frame with a composition time whose three bytes all differ
KeyAVCCt == Reader(<<23, 1, 255, 0, 2, 101, 102>>, FALSE)
\* an AVC end-of-sequence packet in a key-frame tag
KeyAVCEnd == Reader(<<23, 2, 0, 0, 0>>, FALSE)
\* an AVC NAL-unit packet with no NAL bytes
KeyAVCNoNAL == Reader(<<23, 1, 0, 0, 0>>, FALSE)
\* a disposable inter frame of another codec
InterH263 == Reader(<<50, 7, 8>>, FALSE)

MoreVideoPayloads == VideoPayloads \cup {KeyAVCCt, KeyAVCEnd, KeyAVCNoNAL, InterH263}

NextVideo ==
    \/ \E name \in Names, open \in BOOLEAN :
        \E wr \in (IF open THEN WriteOutcomes ELSE {"ok"}) :
            nops < MaxVideoOps /\ OnPublish(1, name, open, wr)
    \/ \E ts \in Timestamps, p \in MoreVideoPayloads :
        \E wr \in Outcomes(1) :
            nops < MaxVideoOps /\ OnVideo(1, ts, p, wr)

SpecVideo == Init /\ [][NextVideo]_vars

\* the payload decodes and is not an AVC key frame
Bypass(payload) ==
    LET video == DecodeVideoData(payload)
    IN  /\ video.ok
        /\ ~payload.bad
        /\ video.FrameType # FrameTypeKeyFrame \/ video.CodecID # CodecIDAVC

\* C12: an OnVideo call on a publishing session whose frame is not a key
\* frame, or is a key frame of another codec than AVC, hands the encoder a
\* video tag whose payload is the received payload byte for byte, and leaves
\* the file as the write of that tag leaves it.
C12_BypassIdentical ==
    [][(last'.op = "OnVideo" /\ h[last'.hd].flvEnc # Nil /\ Bypass(last'.arg))
        => LET orig == FileWrite(Cur, h[last'.hd].flvEnc,
                                 EncodeFlvTag(TagTypeVideo, last'.ts, last'.arg.data), last'.wr)
           IN  /\ last'.tag.type = TagTypeVideo
               /\ last'.tag.body = last'.arg.data
               /\ last'.wrote = orig.wrote
               /\ fs' = orig.st.fs]_vars

\* C12 witness: a key frame of another codec than AVC was written whole,
\* with its received bytes
C12_Witness ==
    /\ last.op = "OnVideo"
    /\ last.arg = KeyH263
    /\ last.wrote = EncodeFlvTag(TagTypeVideo, last.ts, last.arg.data)

\* ------------------------------------------------------------------------
\* One connection that publishes and sends tags, with metadata of two
\* properties among the script payloads
\* ------------------------------------------------------------------------

MaxScriptOps == 2

\* "k" followed by an ECMA array of two boolean properties, a and b
TwoPropScript == <<2, 0, 1, 107, 8, 0, 0, 0, 2, 0, 1, 97, 1, 1, 0, 1, 98, 1, 0, 0, 0, 9>>

NextScript ==
    \/ \E name \in Names, open \in BOOLEAN :
        \E wr \in (IF open THEN WriteOutcomes ELSE {"ok"}) :
            nops < MaxScriptOps /\ OnPublish(1, name, open, wr)
    \/ \E ts \in Timestamps, p \in ScriptPayloads \cup {TwoPropScript} :
        \E wr \in Outcomes(1) :
            nops < MaxScriptOps /\ OnSetDataFrame(1, ts, p, wr)
    \/ \E ts \in Timestamps, p \in AudioPayloads :
        \E wr \in Outcomes(1) :
            nops < MaxScriptOps /\ OnAudio(1, ts, p, wr)
    \/ \E ts \in Timestamps, p \in MoreVideoPayloads :
        \E wr \in Outcomes(1) :
            nops < MaxScriptOps /\ OnVideo(1, ts, p, wr)

SpecScript == Init /\ [][NextScript]_vars

\* OnVideo runs the three transform steps on the payload
TransformRuns(payload) ==
    LET video == DecodeVideoData(payload)
    IN  /\ video.ok
        /\ ~payload.bad
        /\ video.FrameType = FrameTypeKeyFrame
        /\ processFrameWithCV(video.Data, video.CodecID).cv

\* C13: the body of the tag a callback of a publishing session hands to the
\* encoder is the payload it received, byte for byte, for script data, for
\* audio and for video that the transform does not touch.
C13_RoundTrip ==
    (last.op \in TagOps /\ last.tag # NoTag /\ last.ret = "ok"
        /\ (last.op = "OnVideo" => ~TransformRuns(last.arg)))
        => last.tag.body = (IF last.op = "OnSetDataFrame" THEN last.arg ELSE last.arg.data)

\* C14: a publishing name resolves to the base directory followed by exactly
\* one path segment, the file.
C14_SingleSegment ==
    last.op = "OnPublish"
        => LET segs == Segments(Resolve(last.arg))
           IN  Len(segs) = 2 /\ segs[1] = ReceivedSeg

\* the payload is an AVC key frame of NAL units whose transform succeeds
Transformed(payload) ==
    LET video == DecodeVideoData(payload)
    IN  /\ TransformRuns(payload)
        /\ processFrameWithCV(video.Data, video.CodecID).ok

\* C15: for an AVC key frame that went through the transform on a publishing
\* session, the tag handed to the encoder has the frame type, codec id, AVC
\* packet type and composition time of the received payload, only the NAL
\* bytes after them can differ, and when the transform returns the frame it
\* was given the tag's payload is the received payload byte for byte.
C15_FramingPreserved ==
    (last.op = "OnVideo" /\ last.ret = "ok" /\ last.tag # NoTag /\ Transformed(last.arg))
        => LET in == last.arg.data
               out == last.tag.body
               nal == From(in, 6)
           IN  /\ Len(out) >= 5
               /\ SubSeq(out, 1, 5) = SubSeq(in, 1, 5)
               /\ DecodeVideoData(Reader(out, FALSE)).FrameType = DecodeVideoData(last.arg).FrameType
               /\ DecodeVideoData(Reader(out, FALSE)).CodecID = DecodeVideoData(last.arg).CodecID
               /\ DecodeAVCVideoPacket(From(out, 2)).AVCPacketType = DecodeAVCVideoPacket(From(in, 2)).AVCPacketType
               /\ DecodeAVCVideoPacket(From(out, 2)).CompositionTime
                    = DecodeAVCVideoPacket(From(in, 2)).CompositionTime
               /\ packFrameToNALU(applyComputerVision(extractFrameFromNALU(nal).data).data).data = nal
                    => out = in

\* C15 witness: an AVC key frame with a composition time of three different
\* bytes went through the transform and was written whole
C15_Witness ==
    /\ last.op = "OnVideo"
    /\ last.arg = KeyAVCCt
    /\ Transformed(last.arg)
    /\ last.wrote = EncodeFlvTag(TagTypeVideo, last.ts, last.tag.body)
    /\ Len(last.wrote) > TagHeaderLen

\* the payload is an AVC key frame whose AVC packet decodes
KeyFrameAVC(payload) ==
    LET video == DecodeVideoData(payload)
    IN  /\ video.ok
        /\ ~payload.bad
        /\ video.FrameType = FrameTypeKeyFrame
        /\ video.CodecID = CodecIDAVC
        /\ DecodeAVCVideoPacket(video.Data).ok

OpenHandles == {i \in DOMAIN fds : fds[i].open}

\* C17: one connection, whatever callbacks it gets, has at most one file
\* open at any time, and no file open once OnClose has returned.
C17_NoLeakedHandle ==
    /\ Cardinality(OpenHandles) <= 1
    /\ last.op = "OnClose" => OpenHandles = {}

\* C18: a tag callback on a connection on which no OnPublish has succeeded
\* yet returns without a fault and puts nothing into any file.
C18_TagsBeforePublishHarmless ==
    [][(last'.op \in TagOps /\ ~sub[last'.hd].pub)
        => /\ last'.ret # "panic"
           /\ last'.wrote = <<>>
           /\ fs' = fs]_vars

\* ------------------------------------------------------------------------
\* One connection, one name, one audio frame: longer callback sequences
\* ------------------------------------------------------------------------

MaxLongOps == 4

NextLong ==
    \/ \E open \in BOOLEAN :
        \E wr \in (IF open THEN WriteOutcomes ELSE {"ok"}) :
            nops < MaxLongOps /\ OnPublish(1, NameA, open, wr)
    \/ \E wr \in Outcomes(1) :
            nops < MaxLongOps /\ OnAudio(1, 1, GoodAudio, wr)
    \/ nops < MaxLongOps /\ OnClose(1)

SpecLong == Init /\ [][NextLong]_vars

\* C19: once OnClose has run on a connection that was publishing, a tag
\* callback on it neither faults nor changes a file.
C19_ClosedIsTerminal ==
    [][(last'.op \in TagOps /\ sub[last'.hd].pub /\ sub[last'.hd].closes > 0)
        => /\ last'.ret # "panic"
           /\ fs' = fs]_vars

====
